---- MODULE Spec2Model ----
(***************************************************************************)
(* State-machine model of the day-time curve editor widget                 *)
(* (Toolkit/DayTimeEditor/CurveWidget.py): the displayed curves, the       *)
(* selected and the dragged control point, the current time, and the press *)
(* / move / release / delete-key / set_curves / set_current_time / draw    *)
(* handlers.                                                               *)
(*                                                                         *)
(* Python floats are modelled as exact rationals <<num, den>> (den > 0,    *)
(* reduced), so pixel/normalized conversions are computed, not assumed.    *)
(* Python's 0-based indices are 1-based here (TLA+ sequences).             *)
(* The Curve class (Code/DayTime/Curve.py) is not part of the given        *)
(* sources; its operations follow the written specification, section 4.1.  *)
(***************************************************************************)
EXTENDS Integers, Sequences, FiniteSets, TLC

VARIABLES
    width,           \* QWidget.width()
    height,          \* QWidget.height()
    curves,          \* self._curves: sequence of curves
    drag_point,      \* self._drag_point: None or <<curve, point, <<offx, offy>>>>
    selected_point,  \* self._selected_point: None or <<curve, point>>
    current_time,    \* self._current_time
    event,           \* the event handled last, with its inputs
    inserts,         \* <<curve, point>> of every append_cv made by the last handler
    changes,         \* calls of self._change_handler() made by the last handler
    updates,         \* calls of self.update() made by the last handler
    fault,           \* the exception that ended the last handler, or "none"
    canvas,          \* what the last handler painted
    gesture,         \* observer: progress of a press-on-point, move, release, delete sequence
    replaced,        \* observer: set_curves was called, and no press has followed it yet
    calls,           \* the calls the last handler made on curves, update() and the change handler, in order
    previous,        \* observer: what the last handler found when it started
    nEvents          \* number of events delivered so far

vars == <<width, height, curves, drag_point, selected_point, current_time, event,
          inserts, changes, updates, fault, canvas, gesture, replaced, calls, previous, nEvents>>

None == <<>>

NoFault == "none"

\* a canvas on which the handler painted nothing
Blank == [stages |-> <<>>, samples |-> <<>>, bar |-> <<>>, marker |-> None]

----------------------------------------------------------------------------
(* Bounds of the model *)

\* The host delivers at most this many events.
MaxEvents == 5

----------------------------------------------------------------------------
(* Exact rational arithmetic standing for Python float arithmetic *)

RECURSIVE GCD(_, _)
GCD(a, b) == IF b = 0 THEN a ELSE GCD(b, a % b)

IAbs(i) == IF i < 0 THEN -i ELSE i

Rat(n, d) ==
    LET g == GCD(IAbs(n), IAbs(d))
        s == IF d < 0 THEN -1 ELSE 1
    IN  <<(s * n) \div g, (s * d) \div g>>

FromInt(i) == <<i, 1>>
Zero == FromInt(0)
One == FromInt(1)

RAdd(a, b) == Rat(a[1] * b[2] + b[1] * a[2], a[2] * b[2])
RSub(a, b) == Rat(a[1] * b[2] - b[1] * a[2], a[2] * b[2])
RMul(a, b) == Rat(a[1] * b[1], a[2] * b[2])
\* b # 0
RDiv(a, b) == Rat(a[1] * b[2], a[2] * b[1])
RLt(a, b) == a[1] * b[2] < b[1] * a[2]
RLe(a, b) == a[1] * b[2] <= b[1] * a[2]
RAbs(a) == <<IAbs(a[1]), a[2]>>
RMax(a, b) == IF RLt(a, b) THEN b ELSE a
RMin(a, b) == IF RLt(b, a) THEN b ELSE a

\* max(0, min(1, v))
Clamp01(v) == RMax(Zero, RMin(One, v))

----------------------------------------------------------------------------
(* Curve (Code/DayTime/Curve.py): a curve is [cv: control points in storage *)
(* order, built: the points the sampler interpolates, as left by the last   *)
(* build_curve()]. A point is <<x, y>>.                                      *)

\* p goes after every point of s whose x is <= p's x (ties keep storage order)
RECURSIVE InsertByX(_, _)
InsertByX(s, p) ==
    IF s = <<>> THEN <<p>>
    ELSE IF RLt(p[1], Head(s)[1]) THEN <<p>> \o s
    ELSE <<Head(s)>> \o InsertByX(Tail(s), p)

RECURSIVE SortByX(_)
SortByX(s) ==
    IF s = <<>> THEN <<>>
    ELSE InsertByX(SortByX(SubSeq(s, 1, Len(s) - 1)), s[Len(s)])

\* rebuild(): recompute the interpolation data from the control points
build_curve(curve) == [curve EXCEPT !.built = SortByX(curve.cv)]

MakeCurve(points) == build_curve([cv |-> points, built |-> <<>>])

get_cv_points(curve) == curve.cv

\* appendPoint(x, y): add at the end, rebuild; the new point's index is the length
append_cv(curve, x, y) == build_curve([curve EXCEPT !.cv = Append(@, <<x, y>>)])

append_cv_index(curve) == Len(curve.cv) + 1

\* setPointValue(i, x, y): overwrite point i; out of bounds changes nothing
set_cv_value(curve, i, x, y) ==
    IF i \in 1..Len(curve.cv)
    THEN [curve EXCEPT !.cv = [@ EXCEPT ![i] = <<x, y>>]]
    ELSE curve

RemoveAt(s, i) == SubSeq(s, 1, i - 1) \o SubSeq(s, i + 1, Len(s))

\* removePoint(i): remove point i, rebuild; out of bounds changes nothing
remove_cv(curve, i) ==
    IF i \in 1..Len(curve.cv)
    THEN build_curve([curve EXCEPT !.cv = RemoveAt(@, i)])
    ELSE curve

\* index of the last built point whose x is <= x (0 when there is none)
RECURSIVE SegmentOf(_, _, _)
SegmentOf(s, x, k) ==
    IF k = 0 THEN 0
    ELSE IF RLe(s[k][1], x) THEN k
    ELSE SegmentOf(s, x, k - 1)

\* sample(x): 0 without points, the point's y with one point, otherwise linear
\* interpolation through the points in ascending x, held constant outside
\* them; domain and co-domain clamped to [0, 1]
get_value(curve, offset) ==
    LET s == curve.built
        x == Clamp01(offset)
        k == SegmentOf(s, x, Len(s))
    IN  IF Len(s) = 0 THEN Zero
        ELSE IF k = 0 THEN Clamp01(s[1][2])
        ELSE IF k = Len(s) THEN Clamp01(s[Len(s)][2])
        ELSE LET a == s[k]
                 b == s[k + 1]
                 t == RDiv(RSub(x, a[1]), RSub(b[1], a[1]))
             IN  Clamp01(RAdd(a[2], RMul(t, RSub(b[2], a[2]))))

----------------------------------------------------------------------------
(* CurveWidget: render constants and coordinate mapping *)

cv_point_size == 3
legend_border == 52
bar_h == 30
\* slack added to the point size in the control-point hit test
cv_hit_slack == 6
\* vertical pixel tolerance of the click-on-curve test
curve_hit_tolerance == 8

canvas_width(w) == w - legend_border
canvas_height(h) == h - legend_border - bar_h

\* Converts a value from 0 to 1 to a value from 0 .. canvas height
get_y_value_for(h, local_value) ==
    RAdd(RMul(Clamp01(RSub(One, local_value)), FromInt(canvas_height(h))),
         FromInt(bar_h))

\* Converts a value from 0 to 1 to a value from 0 .. canvas width
get_x_value_for(w, local_value) ==
    RMul(Clamp01(local_value), FromInt(canvas_width(w)))

----------------------------------------------------------------------------
(* mousePressEvent. The handler's locals travel in a record                 *)
(* [curves, drag, sel, inserts, changes].                                    *)

\* pixel position of a control point as the press handler computes it
PointPixel(w, h, pt) ==
    <<get_x_value_for(w, pt[1]), RSub(get_y_value_for(h, pt[2]), FromInt(bar_h))>>

\* both pixel distances strictly below point size + slack
PointHit(pix, mouse_x, mouse_y) ==
    /\ RLt(RAbs(RSub(pix[1], FromInt(mouse_x))), FromInt(cv_point_size + cv_hit_slack))
    /\ RLt(RAbs(RSub(pix[2], FromInt(mouse_y))), FromInt(cv_point_size + cv_hit_slack))

\* drag_x_offset, drag_y_offset
DragOffset(pix, mouse_x, mouse_y) ==
    <<RSub(pix[1], FromInt(mouse_x)), RSub(pix[2], FromInt(mouse_y))>>

\* (mutant) a hit is ignored once a point is selected: the first match wins
HitAssign_first(st, index, cv_index, off) ==
    IF st.sel # None THEN st
    ELSE [st EXCEPT !.drag = <<index, cv_index, off>>, !.sel = <<index, cv_index>>]

\* a hit assigns drag point and selection, whatever they held
HitAssign(st, index, cv_index, off) ==
    [st EXCEPT !.drag = <<index, cv_index, off>>, !.sel = <<index, cv_index>>]

\* for cv_index, (x, y) in enumerate(curve.get_cv_points()), from cv_index on
RECURSIVE CheckPoints(_, _, _, _, _, _, _)
CheckPoints(st, w, h, index, cv_index, mouse_x, mouse_y) ==
    LET pts == get_cv_points(st.curves[index])
    IN  IF cv_index > Len(pts) THEN st
        ELSE LET pix == PointPixel(w, h, pts[cv_index])
                 nxt == IF PointHit(pix, mouse_x, mouse_y)
                        THEN HitAssign(st, index, cv_index,
                                       DragOffset(pix, mouse_x, mouse_y))
                        ELSE st
             IN  CheckPoints(nxt, w, h, index, cv_index + 1, mouse_x, mouse_y)

\* the region in which a click may spawn a point
InClickRegion(w, h, mouse_x, mouse_y) ==
    /\ mouse_x > 0
    /\ mouse_x < w - legend_border
    /\ mouse_y > 0
    /\ mouse_y < h - legend_border

\* mpos_relx
ClickRelX(w, mouse_x) == Rat(mouse_x, canvas_width(w))

\* (mutant) the spawned point takes the pointer's own height
ClickValue_raw(curve, h, mpos_relx, mouse_y) ==
    RSub(One, Clamp01(Rat(mouse_y, canvas_height(h))))

\* curve_py: the value the spawned point gets
ClickValue(curve, h, mpos_relx, mouse_y) == get_value(curve, mpos_relx)

\* abs(curve_offy - mouse_y) < 8
NearCurve(curve, h, mpos_relx, mouse_y) ==
    LET curve_offy == RSub(get_y_value_for(h, get_value(curve, mpos_relx)),
                           FromInt(bar_h))
    IN  RLt(RAbs(RSub(curve_offy, FromInt(mouse_y))), FromInt(curve_hit_tolerance))

\* (mutant) the insertion ignores an earlier selection
NothingSelected_ignored(sel) == TRUE

\* ... and self._selected_point is None
NothingSelected(sel) == sel = None

\* the click-on-curve part of the loop body, for curve index
CheckCurve(st, w, h, index, mouse_x, mouse_y) ==
    IF ~InClickRegion(w, h, mouse_x, mouse_y) THEN st
    ELSE LET curve == st.curves[index]
             mpos_relx == ClickRelX(w, mouse_x)
         IN  IF NearCurve(curve, h, mpos_relx, mouse_y) /\ NothingSelected(st.sel)
             THEN LET cv_index == append_cv_index(curve)
                      curve_py == ClickValue(curve, h, mpos_relx, mouse_y)
                  IN  [st EXCEPT
                         !.curves[index] = append_cv(curve, mpos_relx, curve_py),
                         !.sel = <<index, cv_index>>,
                         !.drag = <<index, cv_index, <<Zero, Zero>>>>,
                         !.inserts = Append(@, <<index, cv_index>>),
                         !.changes = @ + 1]
             ELSE st

\* for index, curve in enumerate(self._curves), from index on
RECURSIVE PressLoop(_, _, _, _, _, _)
PressLoop(st, w, h, index, mouse_x, mouse_y) ==
    IF index > Len(st.curves) THEN st
    ELSE PressLoop(
            CheckCurve(CheckPoints(st, w, h, index, 1, mouse_x, mouse_y),
                       w, h, index, mouse_x, mouse_y),
            w, h, index + 1, mouse_x, mouse_y)

\* (mutant) the press starts from the selection and drag target it found
PressResult_keeps(cs, w, h, px, py) ==
    PressLoop([curves |-> cs, drag |-> drag_point, sel |-> selected_point,
               inserts |-> <<>>, changes |-> 0],
              w, h, 1, px - legend_border, py - bar_h)

PressResult(cs, w, h, px, py) ==
    PressLoop([curves |-> cs, drag |-> None, sel |-> None,
               inserts |-> <<>>, changes |-> 0],
              w, h, 1, px - legend_border, py - bar_h)

----------------------------------------------------------------------------
(* Inputs the host and the owner of the curves deliver *)

Half == Rat(1, 2)
Quarter == Rat(1, 4)

\* widget sizes <<width, height>>: a 40 x 40 pixel plot, and a plot of height 0
Sizes == {<<92, 122>>, <<92, 82>>}

\* the lists of curves handed to set_curves
CurveSets ==
    { <<MakeCurve(<< <<Half, Half>> >>)>>,
      <<MakeCurve(<< <<Zero, Zero>>, <<One, One>> >>)>>,
      <<MakeCurve(<< <<Half, Zero>> >>)>>,
      <<MakeCurve(<< <<Quarter, Half>> >>),
        MakeCurve(<< <<Half, Half>>, <<One, Half>> >>)>>,
      <<MakeCurve(<< <<Half, One>> >>),
        MakeCurve(<< <<Half, Zero>> >>),
        MakeCurve(<< <<Half, Zero>> >>)>> }

\* pointer positions of press events, in widget pixels
PressPositions ==
    { <<72, 50>>, <<67, 50>>, <<80, 50>>, <<82, 47>>, <<82, 73>>, <<82, 35>> }

\* pointer positions of move events, in widget pixels (two lie outside the plot)
MovePositions ==
    { <<67, 50>>, <<72, 50>>, <<42, 80>>, <<97, 27>> }

Keys == {"Key_Delete", "Key_A"}

\* the times handed to set_current_time (one lies beyond the end of the day)
Times == {Rat(3, 2)}

Ev(op, x, y) == [op |-> op, x |-> x, y |-> y]

\* Observer of one user gesture: a press that grabs an existing control point
\* ("pressed"), moves while it is held, the release ("released"), the delete
\* key ("deleted"). Any other event order returns it to "idle".
Idle == [phase |-> "idle", point |-> None, moved |-> FALSE]

GestureNext(g, op, sel, ins) ==
    CASE op = "press" ->
            IF sel # None /\ ins = <<>>
            THEN [phase |-> "pressed", point |-> sel, moved |-> FALSE]
            ELSE Idle
      [] op = "move" ->
            IF g.phase = "pressed" THEN [g EXCEPT !.moved = TRUE] ELSE Idle
      [] op = "release" ->
            IF g.phase = "pressed" THEN [g EXCEPT !.phase = "released"] ELSE Idle
      [] op = "Key_Delete" ->
            IF g.phase = "released" THEN [g EXCEPT !.phase = "deleted"] ELSE Idle
      [] OTHER -> Idle

\* Observer of set_curves: "no" until set_curves is called and again from the
\* next press on; in between, whether the call came with a drag target set
NotReplaced == "no"
ReplacedWhile(drag) == IF drag # None THEN "mid_drag" ELSE "at_rest"

\* Observer of what a handler starts from: whether the event before it was a
\* deletion that removed a point, whether a point is selected, whether one is
\* being dragged
Found ==
    [deleted |-> (event.op = "Key_Delete" /\ changes = 1),
     selected |-> (selected_point # None),
     dragging |-> (drag_point # None)]

\* the calls of a press: append_cv and the change handler for each spawned
\* point, update() at the end
PressCalls(ins) ==
    [k \in 1..(2 * Len(ins)) |-> IF k % 2 = 1 THEN "append_cv" ELSE "change_handler"]
        \o <<"update">>

----------------------------------------------------------------------------
(* The widget after construction, and its handlers *)

Init ==
    /\ \E s \in Sizes : width = s[1] /\ height = s[2]
    /\ curves = <<>>
    /\ drag_point = None
    /\ selected_point = None
    /\ current_time = Half
    /\ canvas = Blank
    /\ event = Ev("init", 0, 0)
    /\ inserts = <<>>
    /\ changes = 0
    /\ updates = 0
    /\ fault = NoFault
    /\ gesture = Idle
    /\ replaced = NotReplaced
    /\ calls = <<>>
    /\ previous = [deleted |-> FALSE, selected |-> FALSE, dragging |-> FALSE]
    /\ nEvents = 0

mousePressEvent(px, py) ==
    /\ nEvents < MaxEvents
    /\ \E st \in {PressResult(curves, width, height, px, py)} :
           /\ curves' = st.curves
           /\ drag_point' = st.drag
           /\ selected_point' = st.sel
           /\ inserts' = st.inserts
           /\ changes' = st.changes
           /\ gesture' = GestureNext(gesture, "press", st.sel, st.inserts)
           /\ calls' = PressCalls(st.inserts)
    /\ updates' = 1
    /\ fault' = NoFault
    /\ event' = Ev("press", px, py)
    /\ previous' = Found
    /\ replaced' = NotReplaced
    /\ nEvents' = nEvents + 1
    /\ canvas' = Blank
    /\ UNCHANGED <<width, height, current_time>>

\* (mutant) the release clears the selection as well
ReleasedSelection_cleared(sel) == None

\* what the release handler leaves in the selection
ReleasedSelection(sel) == sel

mouseReleaseEvent ==
    /\ nEvents < MaxEvents
    /\ drag_point' = None
    /\ selected_point' = ReleasedSelection(selected_point)
    /\ inserts' = <<>>
    /\ changes' = 0
    /\ updates' = 0
    /\ fault' = NoFault
    /\ event' = Ev("release", 0, 0)
    /\ calls' = <<>>
    /\ previous' = Found
    /\ UNCHANGED replaced
    /\ gesture' = GestureNext(gesture, "release", selected_point, <<>>)
    /\ nEvents' = nEvents + 1
    /\ canvas' = Blank
    /\ UNCHANGED <<width, height, curves, current_time>>

\* pointer position less the grab offset, relative to the plot origin
DragMouse(pos, off, inset) == RSub(RSub(FromInt(pos), off), FromInt(inset))

\* (mutant) the clamp to [0, 1] is missing
DragLocalX_unclamped(w, mouse_x) == RDiv(mouse_x, FromInt(canvas_width(w)))

\* local_x
DragLocalX(w, mouse_x) == Clamp01(RDiv(mouse_x, FromInt(canvas_width(w))))

\* local_y
DragLocalY(h, mouse_y) ==
    RSub(One, Clamp01(RDiv(mouse_y, FromInt(canvas_height(h)))))

\* float division by a zero plot dimension raises ZeroDivisionError
MoveFaults(w, h) == canvas_width(w) = 0 \/ canvas_height(h) = 0

\* (mutant) the handler does not test the drag target
Dragging_unchecked(cs, drag) == Len(cs) >= 1

\* the handler goes on only with a curve displayed and a drag target set
Dragging(cs, drag) == Len(cs) >= 1 /\ drag # None

\* the exception a dragging move ends with: subscripting None (TypeError), a
\* zero plot dimension, a curve index outside the list; or none
MoveFault(cs, drag, w, h) ==
    IF drag = None THEN "TypeError"
    ELSE IF MoveFaults(w, h) THEN "ZeroDivisionError"
    ELSE IF drag[1] \notin 1..Len(cs) THEN "IndexError"
    ELSE NoFault

\* (mutant) the dragged curve is not rebuilt after the write
MovedCurve_stale(curve, i, x, y) == set_cv_value(curve, i, x, y)

\* curve.set_cv_value(point, local_x, local_y), then curve.build_curve()
MovedCurve(curve, i, x, y) == build_curve(set_cv_value(curve, i, x, y))

\* the calls of a processed move, in the order of the statements
MoveCalls == <<"set_cv_value", "build_curve", "update", "change_handler">>

mouseMoveEvent(px, py) ==
    /\ nEvents < MaxEvents
    /\ IF Dragging(curves, drag_point)
       THEN IF MoveFault(curves, drag_point, width, height) # NoFault
            THEN /\ fault' = MoveFault(curves, drag_point, width, height)
                 /\ changes' = 0
                 /\ updates' = 0
                 /\ calls' = <<>>
                 /\ UNCHANGED curves
            ELSE LET mouse_x == DragMouse(px, drag_point[3][1], legend_border)
                     mouse_y == DragMouse(py, drag_point[3][2], bar_h)
                     local_x == DragLocalX(width, mouse_x)
                     local_y == DragLocalY(height, mouse_y)
                     c == drag_point[1]
                 IN  /\ curves' = [curves EXCEPT ![c] =
                            MovedCurve(@, drag_point[2], local_x, local_y)]
                     /\ fault' = NoFault
                     /\ changes' = 1
                     /\ updates' = 1
                     /\ calls' = MoveCalls
       ELSE /\ fault' = NoFault
            /\ changes' = 0
            /\ updates' = 0
            /\ calls' = <<>>
            /\ UNCHANGED curves
    /\ inserts' = <<>>
    /\ event' = Ev("move", px, py)
    /\ previous' = Found
    /\ UNCHANGED replaced
    /\ gesture' = GestureNext(gesture, "move", selected_point, <<>>)
    /\ nEvents' = nEvents + 1
    /\ canvas' = Blank
    /\ UNCHANGED <<width, height, drag_point, selected_point, current_time>>

\* (mutant) the deleted point stays selected
DeletedSelection_kept(sel) == sel

\* what delete_current_point leaves in the selection
DeletedSelection(sel) == None

\* (mutant) the deletion leaves the drag target set
DeletedDrag_kept(drag) == drag

\* what delete_current_point leaves in the drag target
DeletedDrag(drag) == None

\* (mutant) the first point of the selected curve is removed
RemoveSelected_first(cs, sel) == [cs EXCEPT ![sel[1]] = remove_cv(@, 1)]

\* self._curves[self._selected_point[0]].remove_cv(self._selected_point[1])
RemoveSelected(cs, sel) == [cs EXCEPT ![sel[1]] = remove_cv(@, sel[2])]

\* (mutant) without a selection the redraw and the change handler still run
DeleteIgnored_notifies ==
    /\ fault' = NoFault
    /\ changes' = 1
    /\ updates' = 1
    /\ calls' = <<"update", "change_handler">>
    /\ UNCHANGED <<curves, drag_point, selected_point>>

\* delete_current_point without a selection: the if body is skipped
DeleteIgnored ==
    /\ fault' = NoFault
    /\ changes' = 0
    /\ updates' = 0
    /\ calls' = <<>>
    /\ UNCHANGED <<curves, drag_point, selected_point>>

delete_current_point ==
    IF selected_point # None
    THEN IF selected_point[1] \notin 1..Len(curves)
         THEN /\ fault' = "IndexError"
              /\ changes' = 0
              /\ updates' = 0
              /\ calls' = <<>>
              /\ UNCHANGED <<curves, drag_point, selected_point>>
         ELSE /\ curves' = RemoveSelected(curves, selected_point)
              /\ selected_point' = DeletedSelection(selected_point)
              /\ drag_point' = DeletedDrag(drag_point)
              /\ fault' = NoFault
              /\ changes' = 1
              /\ updates' = 1
              /\ calls' = <<"remove_cv", "update", "change_handler">>
    ELSE DeleteIgnored

keyPressEvent(key) ==
    /\ nEvents < MaxEvents
    /\ IF key = "Key_Delete"
       THEN delete_current_point
       ELSE /\ fault' = NoFault
            /\ changes' = 0
            /\ updates' = 0
            /\ calls' = <<>>
            /\ UNCHANGED <<curves, drag_point, selected_point>>
    /\ inserts' = <<>>
    /\ event' = Ev(key, 0, 0)
    /\ previous' = Found
    /\ UNCHANGED replaced
    /\ gesture' = GestureNext(gesture, key, selected_point, <<>>)
    /\ nEvents' = nEvents + 1
    /\ canvas' = Blank
    /\ UNCHANGED <<width, height, current_time>>

\* (mutant) the selection survives the replacement
ReplacedSelection_kept(sel) == sel

\* what set_curves leaves in the selection
ReplacedSelection(sel) == None

\* (mutant) the drag target survives the replacement
ReplacedDrag_kept(drag) == drag

\* what set_curves leaves in the drag target
ReplacedDrag(drag) == None

set_curves(cs) ==
    /\ nEvents < MaxEvents
    /\ selected_point' = ReplacedSelection(selected_point)
    /\ drag_point' = ReplacedDrag(drag_point)
    /\ curves' = cs
    /\ inserts' = <<>>
    /\ changes' = 0
    /\ updates' = 1
    /\ fault' = NoFault
    /\ event' = Ev("set_curves", 0, 0)
    /\ calls' = <<"update">>
    /\ previous' = Found
    /\ replaced' = ReplacedWhile(drag_point)
    /\ gesture' = Idle
    /\ nEvents' = nEvents + 1
    /\ canvas' = Blank
    /\ UNCHANGED <<width, height, current_time>>

set_current_time(local_time) ==
    /\ nEvents < MaxEvents
    /\ current_time' = Clamp01(local_time)
    /\ inserts' = <<>>
    /\ changes' = 0
    /\ updates' = 1
    /\ fault' = NoFault
    /\ event' = Ev("set_current_time", 0, 0)
    /\ calls' = <<"update">>
    /\ previous' = Found
    /\ UNCHANGED replaced
    /\ gesture' = Idle
    /\ nEvents' = nEvents + 1
    /\ canvas' = Blank
    /\ UNCHANGED <<width, height, curves, drag_point, selected_point>>

----------------------------------------------------------------------------
(* _draw: the painter calls, in order, up to the return or the exception.   *)
(* canvas = [stages: the parts painted, samples: the normalized x at which  *)
(* each polyline column sampled the curves, bar: the colour of each         *)
(* preview-bar column, marker: None or <<x>> of the current-time line].     *)

\* int(): truncation toward zero
Trunc(r) == IF r[1] >= 0 THEN r[1] \div r[2] ELSE -((-r[1]) \div r[2])

IMax(a, b) == IF a < b THEN b ELSE a
IMin(a, b) == IF b < a THEN b ELSE a

\* max(0, min(255, int(curve.get_value(relv) * 255.0)))
Channel(curve, relv) ==
    IMax(0, IMin(255, Trunc(RMul(get_value(curve, relv), FromInt(255)))))

\* the pen colour of one bar column: grey from the only curve, or red, green
\* and blue from bar_curve[0], bar_curve[1], bar_curve[2]
BarColour(cs, relv) ==
    IF Len(cs) = 1
    THEN <<Channel(cs[1], relv), Channel(cs[1], relv), Channel(cs[1], relv)>>
    ELSE <<Channel(cs[1], relv), Channel(cs[2], relv), Channel(cs[3], relv)>>

\* the bar: one colour for i in range(canvas_width - 1), relv = i / canvas_width
Bar(cs, w) ==
    [k \in 1..IMax(canvas_width(w) - 1, 0) |->
        BarColour(cs, Rat(k - 1, canvas_width(w)))]

\* rel_offset = i / (canvas_width - 1.0)
PolyRelOffset(w, i) == Rat(i, canvas_width(w) - 1)

\* the sample positions of the polyline: one for i in range(canvas_width)
Polyline(w) == [k \in 1..IMax(canvas_width(w), 0) |-> PolyRelOffset(w, k - 1)]

\* xoffs
MarkerX(w, t) == RAdd(FromInt(legend_border), RMul(t, FromInt(canvas_width(w))))

\* if len(self._curves) == 0: return
NoCurves(cs) == Len(cs) = 0

\* the exception _draw ends with, or none: a zero grid spacing (plot height
\* 0), a one-column plot with a curve to sample (0 / 0.0), a missing third
\* curve for the colour bar
DrawFault(w, h, cs) ==
    IF canvas_height(h) = 0 THEN "ZeroDivisionError"
    ELSE IF canvas_width(w) = 1 /\ Len(cs) >= 1 THEN "ZeroDivisionError"
    ELSE IF Len(cs) = 2 /\ canvas_width(w) >= 2 THEN "IndexError"
    ELSE NoFault

Painted(w, h, cs, t) ==
    IF canvas_height(h) = 0 THEN Blank
    ELSE IF canvas_width(w) = 1 /\ Len(cs) >= 1
    THEN [Blank EXCEPT !.stages = <<"grid">>]
    ELSE IF NoCurves(cs)
    THEN [Blank EXCEPT !.stages = <<"grid", "curves", "bar_background">>]
    ELSE IF Len(cs) = 2 /\ canvas_width(w) >= 2
    THEN [Blank EXCEPT !.stages = <<"grid", "curves", "bar_background">>,
                       !.samples = Polyline(w)]
    ELSE [stages |-> <<"grid", "curves", "bar_background", "bar", "marker", "hint">>,
          samples |-> Polyline(w),
          bar |-> IF Len(cs) = 0 THEN <<>> ELSE Bar(cs, w),
          marker |-> <<MarkerX(w, t)>>]

\* (mutant) painting drops the selection
DrawState_deselects ==
    /\ selected_point' = None
    /\ UNCHANGED <<curves, drag_point, current_time>>

\* what _draw does to the widget's fields: nothing
DrawState == UNCHANGED <<curves, drag_point, selected_point, current_time>>

paintEvent ==
    /\ nEvents < MaxEvents
    /\ fault' = DrawFault(width, height, curves)
    /\ canvas' = Painted(width, height, curves, current_time)
    /\ DrawState
    /\ inserts' = <<>>
    /\ changes' = 0
    /\ updates' = 0
    /\ event' = Ev("draw", 0, 0)
    /\ calls' = <<>>
    /\ previous' = Found
    /\ UNCHANGED replaced
    /\ gesture' = Idle
    /\ nEvents' = nEvents + 1
    /\ UNCHANGED <<width, height>>

Next ==
    \/ \E p \in PressPositions : mousePressEvent(p[1], p[2])
    \/ mouseReleaseEvent
    \/ \E p \in MovePositions : mouseMoveEvent(p[1], p[2])
    \/ \E k \in Keys : keyPressEvent(k)
    \/ \E cs \in CurveSets : set_curves(cs)
    \/ \E t \in Times : set_current_time(t)
    \/ paintEvent

Spec == Init /\ [][Next]_vars

----------------------------------------------------------------------------
(* Vocabulary of the properties *)

\* pointer of event e relative to the plot origin, as the handlers compute it
MouseX(e) == e.x - legend_border
MouseY(e) == e.y - bar_h

\* <<c, p>> names a control point of the curve list cs
ValidRef(cs, c, p) == c \in 1..Len(cs) /\ p \in 1..Len(cs[c].cv)

\* the control points of cs within the press tolerance of pointer (mx, my)
Hits(cs, w, h, mx, my) ==
    { r \in UNION { {<<c, p>> : p \in 1..Len(cs[c].cv)} : c \in 1..Len(cs) } :
        PointHit(PointPixel(w, h, cs[r[1]].cv[r[2]]), mx, my) }

\* iteration order of the press loop: curves in display order, then points
Before(r, q) == r[1] < q[1] \/ (r[1] = q[1] /\ r[2] < q[2])

PointCounts(cs) == [c \in 1..Len(cs) |-> Len(cs[c].cv)]

----------------------------------------------------------------------------
(* C1: in every reachable state the selection, when present, and the drag   *)
(* target, when present, each name an existing curve of the displayed list  *)
(* and an existing control point of that curve.                             *)
C1_RefsValid ==
    /\ selected_point # None =>
          ValidRef(curves, selected_point[1], selected_point[2])
    /\ drag_point # None =>
          ValidRef(curves, drag_point[1], drag_point[2])

\* a press has just appended a point and targets it, in a curve that already
\* held points
C1_Witness ==
    /\ event.op = "press"
    /\ inserts # <<>>
    /\ drag_point # None
    /\ selected_point # None
    /\ selected_point[2] >= 2

(* C2: with a single displayed curve, a press within the tolerance square   *)
(* of one of its control points makes a control point of that curve (one    *)
(* within tolerance) the selection and the drag target, inserts nothing     *)
(* (the curve is unchanged) and does not call the change handler.           *)
C2_PressOnPointSelects ==
    [][ ( /\ event'.op = "press"
          /\ Len(curves) = 1
          /\ Hits(curves, width, height, MouseX(event'), MouseY(event')) # {} )
        =>
        ( /\ selected_point' \in
                Hits(curves, width, height, MouseX(event'), MouseY(event'))
          /\ drag_point' # None
          /\ <<drag_point'[1], drag_point'[2]>> = selected_point'
          /\ curves' = curves
          /\ inserts' = <<>>
          /\ changes' = 0 ) ]_vars

\* a single curve, a press off the point's centre but inside its tolerance
\* square, and on the curve body, where an insertion would otherwise happen
C2_Witness ==
    /\ event.op = "press"
    /\ Len(curves) = 1
    /\ selected_point # None
    /\ inserts = <<>>
    /\ drag_point # None
    /\ drag_point[3] # <<Zero, Zero>>
    /\ InClickRegion(width, height, MouseX(event), MouseY(event))
    /\ NearCurve(curves[1], height, ClickRelX(width, MouseX(event)), MouseY(event))

(* C3 as stated: hit-testing on press is first-match-wins. When the pointer  *)
(* is within tolerance of one or more control points, the selection and the *)
(* drag target after the press are the first such point in iteration order. *)
C3_FirstMatchWins ==
    [][ event'.op = "press" =>
        LET hits == Hits(curves, width, height, MouseX(event'), MouseY(event'))
        IN  hits # {} =>
              /\ selected_point' \in hits
              /\ \A r \in hits : ~Before(r, selected_point')
              /\ drag_point' # None
              /\ <<drag_point'[1], drag_point'[2]>> = selected_point' ]_vars

(* C3 amended: hit-testing on press is last-match-wins. When the pointer is *)
(* within tolerance of one or more control points, the selection and the    *)
(* drag target after the press are the last such point in iteration order   *)
(* (curves in display order, points in storage order), with the grab offset *)
(* of that point.                                                           *)
C3_LastMatchWins ==
    [][ event'.op = "press" =>
        LET hits == Hits(curves, width, height, MouseX(event'), MouseY(event'))
        IN  hits # {} =>
              /\ selected_point' \in hits
              /\ \A r \in hits : ~Before(selected_point', r)
              /\ drag_point' =
                    <<selected_point'[1], selected_point'[2],
                      DragOffset(PointPixel(width, height,
                                     curves[selected_point'[1]].cv[selected_point'[2]]),
                                 MouseX(event'), MouseY(event'))>> ]_vars

\* a press within tolerance of control points of two different curves; the
\* point of the later curve is selected
C3_Witness ==
    /\ event.op = "press"
    /\ inserts = <<>>
    /\ selected_point # None
    /\ LET hits == Hits(curves, width, height, MouseX(event), MouseY(event))
       IN  /\ \E r \in hits : r[1] < selected_point[1]
           /\ \A r \in hits : ~Before(selected_point, r)

(* C4: after a press that hits an existing control point P at a pointer     *)
(* position inside its tolerance square, a move event at that same pointer  *)
(* position leaves P where it was: its pixel position changes by less than  *)
(* one pixel on each axis.                                                  *)
C4_NoSnapOnFirstMove ==
    [][ ( /\ event.op = "press"
          /\ drag_point # None
          /\ inserts = <<>>
          /\ canvas_width(width) > 0
          /\ canvas_height(height) > 0
          /\ event'.op = "move"
          /\ event'.x = event.x
          /\ event'.y = event.y )
        =>
        LET c == drag_point[1]
            p == drag_point[2]
            before == PointPixel(width, height, curves[c].cv[p])
            after == PointPixel(width, height, curves'[c].cv[p])
        IN  /\ RLt(RAbs(RSub(after[1], before[1])), One)
            /\ RLt(RAbs(RSub(after[2], before[2])), One) ]_vars

(* C5: every move event processed while a drag target is set, with positive *)
(* plot dimensions, writes coordinates with 0 <= x <= 1 and 0 <= y <= 1     *)
(* into the dragged point, at any pointer position; an axis on which the    *)
(* dragged position (pointer less grab offset) left the plot saturates at   *)
(* 0 or 1.                                                                  *)
C5_DragClamped ==
    ( /\ event.op = "move"
      /\ drag_point # None
      /\ Len(curves) >= 1
      /\ canvas_width(width) > 0
      /\ canvas_height(height) > 0 )
    =>
    LET pt == curves[drag_point[1]].cv[drag_point[2]]
        mouse_x == DragMouse(event.x, drag_point[3][1], legend_border)
        mouse_y == DragMouse(event.y, drag_point[3][2], bar_h)
    IN  /\ changes = 1
        /\ RLe(Zero, pt[1]) /\ RLe(pt[1], One)
        /\ RLe(Zero, pt[2]) /\ RLe(pt[2], One)
        /\ RLe(mouse_x, Zero) => pt[1] = Zero
        /\ RLe(FromInt(canvas_width(width)), mouse_x) => pt[1] = One
        /\ RLe(mouse_y, Zero) => pt[2] = One
        /\ RLe(FromInt(canvas_height(height)), mouse_y) => pt[2] = Zero

\* a drag with the pointer left of and below the plot: the point sits in the
\* plot's corner (0, 0)
C5_Witness ==
    /\ event.op = "move"
    /\ drag_point # None
    /\ changes = 1
    /\ MouseX(event) < 0
    /\ MouseY(event) > canvas_height(height)
    /\ curves[drag_point[1]].cv[drag_point[2]] = <<Zero, Zero>>

(* C6: when a press inserts a new control point into a curve, the inserted  *)
(* point is appended as (x, sample(x)), x being the pointer's column divided *)
(* by the plot width and sample the curve's value at x before the insertion; *)
(* the curve's earlier points are kept.                                      *)
C6_InsertOnCurve ==
    [][ event'.op = "press" =>
        \A i \in 1..Len(inserts') :
            LET c == inserts'[i][1]
                k == inserts'[i][2]
                x == Rat(MouseX(event'), canvas_width(width))
            IN  /\ k = Len(curves[c].cv) + 1
                /\ curves'[c].cv = Append(curves[c].cv, <<x, get_value(curves[c], x)>>) ]_vars

\* a press has inserted a point whose stored y is not the pointer's own y
C6_Witness ==
    /\ event.op = "press"
    /\ inserts # <<>>
    /\ LET pt == curves[inserts[1][1]].cv[inserts[1][2]]
       IN  /\ pt[1] = Rat(MouseX(event), canvas_width(width))
           /\ pt[2] # RSub(One, Rat(MouseY(event), canvas_height(height)))
           /\ Len(curves[inserts[1][1]].cv) >= 3

(* C7: whenever a press inserts a new control point into some curve, then   *)
(* when the press handler finishes the selection is (that curve, the new    *)
(* point) and the drag target is (that curve, the new point) with grab      *)
(* offset (0, 0), for any number of displayed curves.                       *)
C7_InsertedPointIsTarget ==
    (event.op = "press" /\ inserts # <<>>) =>
        \A i \in 1..Len(inserts) :
            /\ selected_point = inserts[i]
            /\ drag_point = <<inserts[i][1], inserts[i][2], <<Zero, Zero>>>>

(* C8: a press inserts a control point only when the pointer lies inside    *)
(* the plotted region: 0 < px - legendBorder < plotWidth and                *)
(* 0 < py - barHeight < plotHeight, with the plot dimensions used by drag   *)
(* and drawing.                                                             *)
C8_InsertOnlyInsidePlot ==
    (event.op = "press" /\ inserts # <<>>) =>
        /\ 0 < MouseX(event) /\ MouseX(event) < canvas_width(width)
        /\ 0 < MouseY(event) /\ MouseY(event) < canvas_height(height)

\* the near-the-curve test of the press handler for curve c of cs
PassesNearCurve(cs, w, h, c, mx, my) ==
    /\ InClickRegion(w, h, mx, my)
    /\ NearCurve(cs[c], h, ClickRelX(w, mx), my)

\* no control point of curves 1..c of cs is within tolerance of the pointer
NoHitUpTo(cs, w, h, c, mx, my) ==
    \A r \in Hits(cs, w, h, mx, my) : r[1] > c

(* C9 as stated: in a single press, every curve whose body passes the       *)
(* near-the-curve test at the pointer (and none of whose own control points *)
(* is hit) receives its own newly inserted point, also a curve that comes   *)
(* after a curve in which a point was selected or inserted.                 *)
C9_EveryNearCurveInserts ==
    [][ event'.op = "press" =>
        LET mx == MouseX(event')
            my == MouseY(event')
        IN  \A c \in 1..Len(curves) :
              ( /\ PassesNearCurve(curves, width, height, c, mx, my)
                /\ \A r \in Hits(curves, width, height, mx, my) : r[1] # c )
              => \E i \in 1..Len(inserts') : inserts'[i][1] = c ]_vars

(* C9 amended: in a single press, a curve receives a newly inserted point   *)
(* exactly when its body passes the near-the-curve test at the pointer and  *)
(* no control point has been selected or inserted before in the same press  *)
(* (no control point of this or an earlier curve is within tolerance, and   *)
(* no earlier curve received a point); so a press inserts at most one       *)
(* point, and curves after it receive none.                                 *)
C9_OnlyFirstNearCurveInserts ==
    [][ event'.op = "press" =>
        LET mx == MouseX(event')
            my == MouseY(event')
            can(c) == /\ PassesNearCurve(curves, width, height, c, mx, my)
                      /\ NoHitUpTo(curves, width, height, c, mx, my)
        IN  /\ Len(inserts') <= 1
            /\ \A c \in 1..Len(curves) :
                 (\E i \in 1..Len(inserts') : inserts'[i][1] = c)
                 <=> (can(c) /\ \A b \in 1..(c - 1) : ~can(b))
            /\ \A c \in 1..Len(curves) :
                 (\A i \in 1..Len(inserts') : inserts'[i][1] # c)
                 => curves'[c] = curves[c] ]_vars

\* two curves pass the near-the-curve test and no earlier control point is
\* hit (only the new point lies under the pointer); the first curve received
\* the point and the second did not
C9_Witness ==
    /\ event.op = "press"
    /\ Len(curves) >= 2
    /\ Len(inserts) = 1
    /\ inserts[1][1] = 1
    /\ PassesNearCurve(curves, width, height, 2, MouseX(event), MouseY(event))
    /\ Hits(curves, width, height, MouseX(event), MouseY(event)) = {inserts[1]}
    /\ PointCounts(curves) = <<2, 2>>

(* C10: a release event clears only the drag target and leaves the          *)
(* selection and every curve unchanged; moves in between keep the selection *)
(* and the number of points; so the sequence press-on-point, (any moves),   *)
(* release, delete-key removes exactly the point the press selected: its    *)
(* curve loses that index, every other curve is unchanged.                  *)
C10_ReleaseKeepsSelection ==
    [][ /\ event'.op = "release" =>
            /\ drag_point' = None
            /\ selected_point' = selected_point
            /\ curves' = curves
        /\ (gesture.phase = "pressed" /\ event'.op = "move") =>
            /\ selected_point' = selected_point
            /\ PointCounts(curves') = PointCounts(curves)
        /\ gesture'.phase = "released" => selected_point' = gesture'.point
        /\ gesture'.phase = "deleted" =>
            LET c == gesture.point[1]
                p == gesture.point[2]
            IN  /\ ValidRef(curves, c, p)
                /\ curves'[c].cv = RemoveAt(curves[c].cv, p)
                /\ \A b \in 1..Len(curves) : b # c => curves'[b] = curves[b]
                /\ Len(curves') = Len(curves) ]_vars

\* press on a point, a move that dragged it, release, delete key: the point
\* is gone, from a curve that keeps another point
C10_Witness ==
    /\ gesture.phase = "deleted"
    /\ gesture.moved
    /\ event.op = "Key_Delete"
    /\ changes = 1
    /\ Len(curves[gesture.point[1]].cv) >= 1

----------------------------------------------------------------------------
(* C11 (as stated): after every release event, as after every deletion and  *)
(* every set_curves, both the selection and the drag target are empty.      *)
C11_ClearedTogether ==
    (\/ event.op \in {"release", "set_curves"}
     \/ (event.op = "Key_Delete" /\ changes = 1))
        => (selected_point = None /\ drag_point = None)

(* C11 (amended): a deletion and a set_curves leave both the selection and  *)
(* the drag target empty; a release leaves the drag target empty and the    *)
(* selection as it was.                                                     *)
C11_ClearedOnDeleteAndReplace ==
    [][ /\ event'.op = "set_curves" =>
            (selected_point' = None /\ drag_point' = None)
        /\ (event'.op = "Key_Delete" /\ selected_point # None) =>
            (selected_point' = None /\ drag_point' = None)
        /\ event'.op = "release" =>
            (drag_point' = None /\ selected_point' = selected_point) ]_vars

\* a release has ended a drag and the point is still selected
C11_Witness ==
    /\ event.op = "release"
    /\ selected_point # None
    /\ drag_point = None
    /\ ValidRef(curves, selected_point[1], selected_point[2])

----------------------------------------------------------------------------
(* C12: a delete-key event received while a selection (c, p) exists removes *)
(* point p from curve c: the point count of curve c decreases by exactly    *)
(* one, no other curve changes, selection and drag target are empty         *)
(* afterwards, and the change handler is called exactly once.               *)
C12_DeleteRemovesSelected ==
    [][ (event'.op = "Key_Delete" /\ selected_point # None) =>
            LET c == selected_point[1]
                p == selected_point[2]
            IN  /\ ValidRef(curves, c, p)
                /\ Len(curves') = Len(curves)
                /\ curves'[c].cv = RemoveAt(curves[c].cv, p)
                /\ Len(curves'[c].cv) = Len(curves[c].cv) - 1
                /\ \A b \in 1..Len(curves) : b # c => curves'[b] = curves[b]
                /\ selected_point' = None
                /\ drag_point' = None
                /\ changes' = 1 ]_vars

\* the delete key has removed a point from one of two displayed curves, and
\* the curve it was removed from keeps a point
C12_Witness ==
    /\ event.op = "Key_Delete"
    /\ changes = 1
    /\ fault = NoFault
    /\ Len(curves) = 2
    /\ PointCounts(curves) \in {<<1, 2>>, <<1, 1>>}
    /\ selected_point = None

----------------------------------------------------------------------------
(* C13: set_curves displays a handed-over list and leaves selection and     *)
(* drag target empty; from then until the next press they stay empty and no *)
(* move, release or delete-key event changes any curve or calls the change  *)
(* handler, also when set_curves came while a drag target was set. (The     *)
(* handlers reach curves only through the displayed list, so the replaced   *)
(* list is out of their reach.)                                             *)
C13_ReplacedCurvesUntouched ==
    [][ /\ event'.op = "set_curves" =>
            /\ curves' \in CurveSets
            /\ selected_point' = None
            /\ drag_point' = None
        /\ replaced' # NotReplaced =>
            /\ selected_point' = None
            /\ drag_point' = None
        /\ (replaced' # NotReplaced /\ event'.op \in {"move", "release", "Key_Delete"}) =>
            /\ curves' = curves
            /\ changes' = 0
            /\ fault' = NoFault ]_vars

\* set_curves came in the middle of a drag, and a move event followed it
C13_Witness ==
    /\ replaced = "mid_drag"
    /\ event.op = "move"
    /\ Len(curves) >= 1

----------------------------------------------------------------------------
(* C14: the change handler is called exactly once by a press that inserts a *)
(* point, by a move processed with a drag target set and by a delete key    *)
(* with a selection; it is not called by a press that inserts nothing, a    *)
(* release, a move without drag target, a delete key without selection,     *)
(* another key, set_curves, set_current_time or draw; and an event that     *)
(* does not call it (set_curves aside) leaves every curve as it was.        *)
C14_HandlerOncePerMutation ==
    [][ /\ event'.op = "press" =>
            /\ Len(inserts') <= 1
            /\ changes' = Len(inserts')
            /\ (inserts' # <<>>) <=> (curves' # curves)
        /\ event'.op = "move" =>
            changes' = (IF drag_point # None /\ fault' = NoFault THEN 1 ELSE 0)
        /\ event'.op = "Key_Delete" =>
            changes' = (IF selected_point # None THEN 1 ELSE 0)
        /\ event'.op \in {"release", "Key_A", "set_curves", "set_current_time", "draw"} =>
            changes' = 0
        /\ (changes' = 0 /\ event'.op # "set_curves") => curves' = curves ]_vars

\* a press has inserted a point into one of several displayed curves
C14_Witness ==
    /\ event.op = "press"
    /\ Len(inserts) = 1
    /\ changes = 1
    /\ Len(curves) >= 2

----------------------------------------------------------------------------
(* C15: with a plot width or plot height of zero or less, no press, move or *)
(* draw event ends with a division by zero.                                 *)
C15_NoDivisionFault ==
    (/\ canvas_width(width) <= 0 \/ canvas_height(height) <= 0
     /\ event.op \in {"press", "move", "draw"})
        => fault # "ZeroDivisionError"

----------------------------------------------------------------------------
\* the sample position of bar column k: relv = float(i) / float(canvas_width)
BarRelv(w, k) == Rat(k - 1, canvas_width(w))

(* C16: whenever more than one curve is displayed (on a plot of positive    *)
(* height and more than one column), draw completes without fault and       *)
(* paints every preview-bar column with red from the first curve's sample   *)
(* at that column, green from the second's and, with three or more curves,  *)
(* blue from the third's, each clamp(int(sample * 255), 0, 255).            *)
C16_MultiCurveBarColoured ==
    (/\ event.op = "draw"
     /\ Len(curves) > 1
     /\ canvas_width(width) > 1
     /\ canvas_height(height) > 0)
        => /\ fault = NoFault
           /\ Len(canvas.bar) = canvas_width(width) - 1
           /\ \A k \in 1..Len(canvas.bar) :
                 /\ canvas.bar[k][1] = Channel(curves[1], BarRelv(width, k))
                 /\ canvas.bar[k][2] = Channel(curves[2], BarRelv(width, k))
                 /\ Len(curves) >= 3 =>
                       canvas.bar[k][3] = Channel(curves[3], BarRelv(width, k))

----------------------------------------------------------------------------
(* C17: every draw that runs to its end, for any number of displayed curves *)
(* including zero, has drawn the grid, the curves and the preview bar, and  *)
(* after them the marker line at the current time and the usage hint.       *)
C17_MarkerAndHintDrawn ==
    (event.op = "draw" /\ fault = NoFault)
        => /\ Len(canvas.stages) >= 5
           /\ SubSeq(canvas.stages, 1, 3) = <<"grid", "curves", "bar_background">>
           /\ SubSeq(canvas.stages, Len(canvas.stages) - 1, Len(canvas.stages))
                 = <<"marker", "hint">>
           /\ canvas.marker = <<MarkerX(width, current_time)>>

----------------------------------------------------------------------------
(* C18: a draw request changes nothing: the displayed curve list with every *)
(* curve's control points, the selection, the drag target and the current   *)
(* time are the same after the draw as before it.                           *)
C18_DrawChangesNothing ==
    [][ event'.op = "draw" =>
            /\ curves' = curves
            /\ selected_point' = selected_point
            /\ drag_point' = drag_point
            /\ current_time' = current_time ]_vars

\* a draw in the middle of a drag, after the current time was set
C18_Witness ==
    /\ event.op = "draw"
    /\ drag_point # None
    /\ selected_point # None
    /\ current_time = One
    /\ canvas.stages # <<>>

----------------------------------------------------------------------------
(* C19: a move event received while no drag target is set changes no curve, *)
(* leaves the selection and the (empty) drag target as they were, requests  *)
(* no redraw, does not call the change handler and ends without exception.  *)
C19_MoveWithoutDragIsInert ==
    [][ (drag_point = None /\ event'.op = "move") =>
            /\ curves' = curves
            /\ selected_point' = selected_point
            /\ drag_point' = None
            /\ updates' = 0
            /\ changes' = 0
            /\ fault' = NoFault ]_vars

\* a move after a release: a point is selected, nothing is dragged
C19_Witness ==
    /\ event.op = "move"
    /\ drag_point = None
    /\ selected_point # None
    /\ Len(curves) >= 1
    /\ updates = 0

----------------------------------------------------------------------------
(* C20: in every reachable state, a drag target <<c, p, offset>> comes with *)
(* the selection <<c, p>>: never without a selection, never with another.   *)
C20_DragImpliesSelection ==
    drag_point # None =>
        /\ selected_point # None
        /\ selected_point = <<drag_point[1], drag_point[2]>>

\* a point of the second displayed curve is being dragged
C20_Witness ==
    /\ drag_point # None
    /\ drag_point[1] = 2
    /\ event.op = "move"
    /\ changes = 1

----------------------------------------------------------------------------
(* C21: a delete-key event received while no selection exists changes no    *)
(* curve, leaves selection and drag target empty, requests no redraw, does  *)
(* not call the change handler and ends without exception; this includes a  *)
(* delete key that directly follows a deletion.                             *)
C21_DeleteWithoutSelectionIsInert ==
    [][ (event'.op = "Key_Delete" /\ selected_point = None) =>
            /\ curves' = curves
            /\ selected_point' = None
            /\ drag_point' = None
            /\ updates' = 0
            /\ changes' = 0
            /\ calls' = <<>>
            /\ fault' = NoFault ]_vars

\* a second delete key directly after a deletion, with points left to lose
C21_Witness ==
    /\ event.op = "Key_Delete"
    /\ previous.deleted
    /\ ~previous.selected
    /\ changes = 0
    /\ \E c \in 1..Len(curves) : Len(curves[c].cv) >= 1

----------------------------------------------------------------------------
(* C22: a move event processed with a drag target set writes the new        *)
(* coordinates into the dragged point, rebuilds that curve, requests a      *)
(* redraw and calls the change handler, in this order; after it, as in      *)
(* every state a draw can sample, rebuilding a displayed curve would change *)
(* nothing.                                                                 *)
C22_RebuiltBeforeNotified ==
    [][ /\ (event'.op = "move" /\ drag_point # None /\ fault' = NoFault) =>
            /\ calls' = <<"set_cv_value", "build_curve", "update", "change_handler">>
            /\ curves'[drag_point[1]] =
                  build_curve(set_cv_value(curves[drag_point[1]], drag_point[2],
                                           curves'[drag_point[1]].cv[drag_point[2]][1],
                                           curves'[drag_point[1]].cv[drag_point[2]][2]))
        /\ \A c \in 1..Len(curves') : build_curve(curves'[c]) = curves'[c] ]_vars

\* a drag has moved a point of a curve with several points, past its neighbour
C22_Witness ==
    /\ event.op = "move"
    /\ Len(calls) = 4
    /\ drag_point # None
    /\ Len(curves[drag_point[1]].cv) >= 2
    /\ curves[drag_point[1]].built # curves[drag_point[1]].cv

----------------------------------------------------------------------------
(* C23: a press that is within tolerance of no control point and passes no  *)
(* curve's near-the-curve test leaves selection and drag target empty and   *)
(* changes no curve, whatever was selected or dragged before it.            *)
C23_PressOnNothingDeselects ==
    [][ (/\ event'.op = "press"
         /\ Hits(curves, width, height, MouseX(event'), MouseY(event')) = {}
         /\ \A c \in 1..Len(curves) :
               ~PassesNearCurve(curves, width, height, c, MouseX(event'), MouseY(event')))
            => /\ selected_point' = None
               /\ drag_point' = None
               /\ curves' = curves
               /\ changes' = 0 ]_vars

\* a press on nothing, made while a point was selected and dragged
C23_Witness ==
    /\ event.op = "press"
    /\ previous.selected
    /\ previous.dragging
    /\ selected_point = None
    /\ drag_point = None
    /\ inserts = <<>>
    /\ Len(curves) >= 1

----------------------------------------------------------------------------
\* the one mapping of the claim: column c of a plot w wide
ColumnToX(w, c) == Clamp01(RDiv(c, FromInt(canvas_width(w))))

(* C24: point insertion on press, drag on move, the polyline sampling and   *)
(* the preview-bar sampling all convert a plot column c to the normalized   *)
(* x = clamp(c / plot width, 0, 1), for every column of the plot.           *)
C24_OneColumnMapping ==
    /\ (event.op = "press" /\ inserts # <<>>) =>
          curves[inserts[1][1]].cv[inserts[1][2]][1]
             = ColumnToX(width, FromInt(MouseX(event)))
    /\ (event.op = "move" /\ changes = 1) =>
          curves[drag_point[1]].cv[drag_point[2]][1]
             = ColumnToX(width, DragMouse(event.x, drag_point[3][1], legend_border))
    /\ (event.op = "draw" /\ canvas.samples # <<>>) =>
          /\ Len(canvas.samples) = canvas_width(width)
          /\ \A k \in 1..Len(canvas.samples) :
                canvas.samples[k] = ColumnToX(width, FromInt(k - 1))
    /\ (event.op = "draw" /\ canvas.bar # <<>>) =>
          \A k \in 1..Len(canvas.bar) :
             canvas.bar[k] = BarColour(curves, ColumnToX(width, FromInt(k - 1)))

====
